---------------------------- MODULE Spec2Model ----------------------------
(***************************************************************************)
(* A model of the analysis and verification scripts of the repository      *)
(* prime-polynomial-Q47:                                                   *)
(*                                                                         *)
(*   scripts/analyze_primes.py     density, k-tuples, clusters, gaps,      *)
(*                                 residues mod 283, and main()            *)
(*   scripts/verify_quadruplets.py Miller-Rabin, Q(n), verify_quadruplet   *)
(*                                                                         *)
(* Python lists are sequences (1-based here, 0-based in the source), a     *)
(* Python set is a set, a dict is a record or a function.  Python integers *)
(* are unbounded; every product below is kept inside TLC's integer range   *)
(* by the bounds of the inputs, or is computed by MulMod, which never      *)
(* forms a value above 63 * modulus.                                       *)
(***************************************************************************)
EXTENDS Integers, Sequences, FiniteSets

VARIABLES
    pc,              \* where the running script is
    n_values,        \* analyze_primes: the loaded index sequence
    ranges,          \* argument of compute_density_by_range
    densities,       \* result of compute_density_by_range
    k,               \* argument of find_ktuples
    ktuples,         \* result of find_ktuples
    clusters,        \* result of find_all_clusters
    gaps,            \* result of compute_gaps
    printed,         \* main(): the gap statistics printed so far
    error,           \* the exception that ended the script, or "none"
    forbidden,       \* analyze_residues_mod_283: the local set forbidden
    residue_result,  \* result of analyze_residues_mod_283
    mr_n,            \* is_probable_prime: n
    mr_r,            \* is_probable_prime: r
    mr_d,            \* is_probable_prime: d
    mr_i,            \* is_probable_prime: position in the witness list
    verdict,         \* is_probable_prime: the value returned
    start_n,         \* verify_quadruplet: start_n
    exponent,        \* verify_quadruplet: the exponent of Q
    offset,          \* verify_quadruplet: loop variable offset
    results,         \* verify_quadruplet: results
    before_prime,    \* verify_quadruplet: before_prime
    after_prime,     \* verify_quadruplet: after_prime
    is_valid         \* verify_quadruplet: the value returned

analysis_vars == <<n_values, ranges, densities, k, ktuples, clusters, gaps,
                   printed, error, forbidden, residue_result>>
mr_vars == <<mr_n, mr_r, mr_d, mr_i, verdict>>
quad_vars == <<start_n, exponent, offset, results, before_prime, after_prime,
               is_valid>>
vars == <<pc, analysis_vars, mr_vars, quad_vars>>

(***************************************************************************)
(* Bounds of the model.                                                    *)
(***************************************************************************)
\* the input file holds numbers of 0..MaxN (plus the fixed inputs below)
MaxN == 4
\* bucket ends low, high are drawn from 0..MaxEnd
MaxEnd == 3
\* at most MaxBuckets buckets in a list of ranges
MaxBuckets == 2
\* find_ktuples is called with k in 0..MaxK
MaxK == 5
\* is_probable_prime is called with n in -3..MaxCandidate (plus fixed inputs)
MaxCandidate == 600
\* verify_quadruplet is called with start_n in -(MaxStart + 2)..MaxStart
MaxStart == 8

None == "none"

(***************************************************************************)
(* Helpers on sets and sequences.                                          *)
(***************************************************************************)
Range(s) == {s[i] : i \in 1..Len(s)}

SetMin(S) == CHOOSE x \in S : \A y \in S : x <= y

SetMax(S) == CHOOSE x \in S : \A y \in S : y <= x

RECURSIVE SortedSeq(_)
\* sorted(S) for a set S of integers
SortedSeq(S) ==
    IF S = {} THEN <<>>
    ELSE LET m == SetMin(S) IN <<m>> \o SortedSeq(S \ {m})

RECURSIVE SumSeq(_)
SumSeq(s) == IF s = <<>> THEN 0 ELSE Head(s) + SumSeq(Tail(s))

\* the end-to-end sequence of the specification
ExampleSeq == <<5, 6, 7, 10, 11, 13>>

\* The parsed contents of the data file, as the set that line 27 builds:
\* every set of numbers of 0..MaxN, and a few fixed files that reach the
\* residues 10, 11 and 16 (mod 283) and the ranges main() reports.
FileContents ==
    (SUBSET (0..MaxN))
        \cup { Range(ExampleSeq), {10}, {3, 293}, {10, 293}, {16, 284, 285},
               {13, 14, 5000}, {7} }

(***************************************************************************)
(* analyze_primes.py                                                       *)
(***************************************************************************)
\* load_prime_n_values, line 27: sorted(set(n_values))
load_prime_n_values(lines) == SortedSeq(lines)

\* a faulty CountInRange: the upper end is taken as part of the bucket
CountInRangeClosed(nv, low, high) ==
    Cardinality({i \in 1..Len(nv) : low <= nv[i] /\ nv[i] <= high})

\* the half-open test of line 33, counted over n_values
CountInRange(nv, low, high) ==
    Cardinality({i \in 1..Len(nv) : low <= nv[i] /\ nv[i] < high})

\* num / den rounded to the nearest integer, ties to even (den > 0, num >= 0)
RoundHalfEven(num, den) ==
    LET q == num \div den
        rem == num % den
    IN  IF 2 * rem < den THEN q
        ELSE IF 2 * rem > den THEN q + 1
        ELSE IF q % 2 = 0 THEN q ELSE q + 1

\* the density scale of line 35, 1e6
Scale == 1000000

\* lines 35 and 39: round(count / (high - low) * 1e6, 1), in tenths.  For
\* high - low < 256 no exact quotient lies on a rounding tie, and the
\* nearest tenth of the exact quotient is what the float computation gives.
DensityTenths(count, low, high) ==
    RoundHalfEven(count * Scale * 10, high - low)

\* lines 36-40: the record appended; 'range' is kept as the pair (low, high)
\* instead of its formatted text, 'density_per_million' is in tenths
DensityRecord(count, low, high) ==
    [range |-> <<low, high>>,
     count |-> count,
     density_per_million |-> DensityTenths(count, low, high)]

RECURSIVE DensityLoop(_, _, _)
\* lines 32-40: the loop over ranges, res the list built so far
DensityLoop(nv, rs, res) ==
    IF rs = <<>> THEN res
    ELSE LET low == Head(rs)[1]
             high == Head(rs)[2]
             count == CountInRange(nv, low, high)
         IN  DensityLoop(nv, Tail(rs),
                         IF count > 0
                         THEN Append(res, DensityRecord(count, low, high))
                         ELSE res)

compute_density_by_range(nv, rs) == DensityLoop(nv, rs, <<>>)

RECURSIVE RunEnd(_, _)
\* the inner while of lines 50-52 and 69-71: from position i, the position
\* of the last element of the run of consecutive integers that starts at i
RunEnd(nv, i) ==
    IF i + 1 <= Len(nv) /\ nv[i + 1] = nv[i] + 1 THEN RunEnd(nv, i + 1) ELSE i

\* a faulty RunLen: one element too many is counted
RunLenOneMore(i, j) == 2 + (j - i)

\* run_len after the inner while: 1 plus the number of steps it took
RunLen(i, j) == 1 + (j - i)

\* a faulty KtupleMatch: a longer run is recorded as well
KtupleAtLeast(run_len, kk) == run_len >= kk

\* lines 53-58: a run is recorded when run_len == k; a longer run is passed
KtupleMatch(run_len, kk) == run_len = kk

RECURSIVE KtupleLoop(_, _, _, _)
\* lines 47-59: the outer while of find_ktuples
KtupleLoop(nv, kk, i, res) ==
    IF i > Len(nv) THEN res
    ELSE LET j == RunEnd(nv, i)
             run_len == RunLen(i, j)
         IN  KtupleLoop(nv, kk, j + 1,
                        IF KtupleMatch(run_len, kk) THEN Append(res, nv[i])
                        ELSE res)

find_ktuples(nv, kk) == KtupleLoop(nv, kk, 1, <<>>)

\* a faulty IsCluster: an isolated element is reported as a run
IsClusterFromOne(run_len) == run_len >= 1

\* line 72: a run is reported when run_len >= 2
IsCluster(run_len) == run_len >= 2

RECURSIVE ClusterLoop(_, _, _)
\* lines 66-74: the outer while of find_all_clusters
ClusterLoop(nv, i, res) ==
    IF i > Len(nv) THEN res
    ELSE LET j == RunEnd(nv, i)
             run_len == RunLen(i, j)
         IN  ClusterLoop(nv, j + 1,
                         IF IsCluster(run_len)
                         THEN Append(res, <<nv[i], run_len>>)
                         ELSE res)

find_all_clusters(nv) == ClusterLoop(nv, 1, <<>>)

\* a faulty Gap: the difference is taken the other way round
GapReversed(nv, i) == nv[i - 1] - nv[i]

\* line 81: the gap appended for (0-based) index i, here position i + 1
Gap(nv, i) == nv[i] - nv[i - 1]

RECURSIVE GapLoop(_, _, _)
\* lines 80-81: for i in range(1, len(n_values)); i is the 1-based position
GapLoop(nv, i, res) ==
    IF i > Len(nv) THEN res
    ELSE GapLoop(nv, i + 1, Append(res, Gap(nv, i)))

compute_gaps(nv) == GapLoop(nv, 2, <<>>)

(***************************************************************************)
(* Exact modular arithmetic: Python's pow(b, e, m) on unbounded integers.  *)
(***************************************************************************)
\* one step of the multiplication a * b taken five bits of b at a time:
\* acc * 32 + a * c stays below 63 * m, inside TLC's integers for m <= 2^25
MulStep(acc, a, c, m) == (acc * 32 + a * c) % m

\* the five bits of b at position j (counted in groups of five)
Chunk(b, j) == (b \div (32 ^ j)) % 32

\* (a * b) % m for 0 <= a, b < m <= 2^25, the way Python forms it on
\* unbounded integers.  A product of two factors up to 46340 stays inside
\* TLC's integers and is formed directly; a larger one is summed from the
\* five groups of five bits of b, reduced after each group.
MulMod(a, b, m) ==
    IF a <= 46340 /\ b <= 46340 THEN (a * b) % m
    ELSE MulStep(MulStep(MulStep(MulStep(MulStep(0, a, Chunk(b, 4), m),
                                         a, Chunk(b, 3), m),
                                 a, Chunk(b, 2), m),
                         a, Chunk(b, 1), m),
                 a, Chunk(b, 0), m)

RECURSIVE ModPow(_, _, _)
\* pow(b, e, m) for e >= 0, m >= 1, by repeated squaring; the power of the
\* half exponent is bound by a quantifier, so that it is computed once per
\* level also where the value of a definition is not kept (under ENABLED)
ModPow(b, e, m) ==
    IF e = 0 THEN 1 % m
    ELSE CHOOSE v \in {(IF e % 2 = 1
                        THEN MulMod(MulMod(h, h, m), b % m, m)
                        ELSE MulMod(h, h, m)) :
                       h \in {ModPow(b, e \div 2, m)}} : TRUE

(***************************************************************************)
(* analyze_residues_mod_283                                                *)
(***************************************************************************)
\* line 86
p == 283

\* the exponent of lines 89 (and of Q)
E == 47

\* line 89: the test that x is a root of unity
IsRootOfUnity(x) == ModPow(x, E, p) = 1

\* line 89: roots_of_unity, in ascending order
roots_of_unity == SelectSeq([x \in 1..(p - 1) |-> x], IsRootOfUnity)

\* a faulty n_forb: the exponent p - 1 (which yields 1) for the inverse
n_forb_no_inverse(r) ==
    LET inv == ModPow(r - 1, p - 1, p)
    IN  (r * inv) % p

\* lines 93-94: n_forb for the root r
n_forb(r) ==
    LET inv == ModPow(r - 1, p - 2, p)
    IN  (r * inv) % p

\* lines 90-95: the set forbidden after the loop
ForbiddenSet == {n_forb(r) : r \in {x \in Range(roots_of_unity) : x # 1}}

\* line 98
Residues(nv) == [i \in 1..Len(nv) |-> nv[i] % p]

\* line 99: Counter(residues), a dict from each residue present to its count
Counter(s) ==
    [r \in Range(s) |-> Cardinality({i \in 1..Len(s) : s[i] = r})]

\* a faulty HistGet: a residue class present counts once, however many
\* elements fall in it
HistGetPresence(hist, r) == IF r \in DOMAIN hist THEN 1 ELSE 0

\* hist.get(r, 0)
HistGet(hist, r) == IF r \in DOMAIN hist THEN hist[r] ELSE 0

RECURSIVE SumOver(_, _)
\* sum(hist.get(r, 0) for r in S)
SumOver(hist, S) ==
    IF S = {} THEN 0
    ELSE LET r == SetMin(S) IN HistGet(hist, r) + SumOver(hist, S \ {r})

\* line 102
ForbiddenCount(nv, forb) == SumOver(Counter(Residues(nv)), forb)

\* line 108
Verification(forbidden_count) == IF forbidden_count = 0 THEN "PASS" ELSE "FAIL"

\* lines 104-109: the dict returned
analyze_residues_mod_283(nv) ==
    LET forbidden_count == ForbiddenCount(nv, ForbiddenSet)
    IN  [total_primes |-> Len(nv),
         forbidden_residue_count |-> Cardinality(ForbiddenSet),
         primes_in_forbidden |-> forbidden_count,
         verification |-> Verification(forbidden_count)]

(***************************************************************************)
(* verify_quadruplets.py                                                   *)
(***************************************************************************)
\* line 28
witnesses == <<2, 3, 5, 7, 11, 13, 17, 19, 23, 29, 31, 37>>

\* lines 14-19: the paths that decide without a witness
IsTrivial(n) == n < 2 \/ n = 2 \/ n = 3 \/ n % 2 = 0

\* lines 14-19: what they return
TrivialVerdict(n) ==
    IF n < 2 THEN FALSE
    ELSE IF n = 2 \/ n = 3 THEN TRUE
    ELSE FALSE

RECURSIVE DecomposeLoop(_, _)
\* lines 23-25: while d % 2 == 0: r += 1; d //= 2
DecomposeLoop(r, d) ==
    IF d % 2 = 0 THEN DecomposeLoop(r + 1, d \div 2) ELSE <<r, d>>

\* line 22 and the loop: (r, d) with n - 1 = 2^r * d, for odd n >= 5
Decompose(n) == DecomposeLoop(0, n - 1)

\* a faulty SkipWitness: the witness equal to n is used
SkipWitnessAbove(a, n) == a > n

\* lines 31-32: a witness not below n is skipped
SkipWitness(a, n) == a >= n

RECURSIVE SquaringReaches(_, _, _)
\* lines 39-44: the for loop with cnt rounds left; TRUE when it breaks on
\* x == n - 1, FALSE when it runs out (the else branch, return False)
SquaringReaches(x, n, cnt) ==
    IF cnt <= 0 THEN FALSE
    ELSE LET x2 == ModPow(x, 2, n)
         IN  IF x2 = n - 1 THEN TRUE ELSE SquaringReaches(x2, n, cnt - 1)

\* a faulty WitnessPasses: the squaring loop of lines 39-44 is left out
WitnessPassesNoSquaring(a, n, r, d) ==
    LET x == ModPow(a, d, n)
    IN  x = 1 \/ x = n - 1

\* lines 34-44: whether the witness a lets the loop over witnesses go on
WitnessPasses(a, n, r, d) ==
    LET x == ModPow(a, d, n)
    IN  x = 1 \/ x = n - 1 \/ SquaringReaches(x, n, r - 1)

RECURSIVE WitnessLoop(_, _, _, _)
\* lines 30-46: the loop over witnesses from position i on
WitnessLoop(n, r, d, i) ==
    IF i > Len(witnesses) THEN TRUE
    ELSE IF SkipWitness(witnesses[i], n) THEN WitnessLoop(n, r, d, i + 1)
    ELSE IF WitnessPasses(witnesses[i], n, r, d) THEN WitnessLoop(n, r, d, i + 1)
    ELSE FALSE

\* lines 12-46, as one call
is_probable_prime(n) ==
    IF IsTrivial(n) THEN TrivialVerdict(n)
    ELSE LET rd == Decompose(n) IN WitnessLoop(n, rd[1], rd[2], 1)

RECURSIVE Pow(_, _)
\* b ** e for e >= 0
Pow(b, e) == IF e = 0 THEN 1 ELSE b * Pow(b, e - 1)

\* lines 48-50: Q(n) = n**47 - (n-1)**47.  The 47th powers exceed TLC's
\* integers for every n outside -1..1, so the exponent is the parameter e
\* and verify_quadruplet runs with e in Exponents.
Q(n, e) == Pow(n, e) - Pow(n - 1, e)

\* lines 69-70: the indices of the two boundaries
BeforeIndex(s) == s - 1

\* a faulty AfterIndex: the last index of the quadruplet itself
AfterIndexInside(s) == s + 3

AfterIndex(s) == s + 4

RECURSIVE All(_)
\* all(results)
All(bs) == IF bs = <<>> THEN TRUE ELSE Head(bs) /\ All(Tail(bs))

\* line 78
IsValid(res, before, after) == All(res) /\ ~before /\ ~after

(***************************************************************************)
(* main() of analyze_primes.py: the ranges it reports and the gap          *)
(* statistics it prints.                                                   *)
(***************************************************************************)
\* lines 135-143
MainRanges ==
    << <<13, 5000>>, <<5000, 20000>>, <<200000, 500000>>, <<500000, 1000000>>,
       <<2000000, 10000000>>, <<50000000, 100000000>>,
       <<100000000, 300000000>> >>

RECURSIVE InsertSorted(_, _)
InsertSorted(x, s) ==
    IF s = <<>> THEN <<x>>
    ELSE IF x <= Head(s) THEN <<x>> \o s
    ELSE <<Head(s)>> \o InsertSorted(x, Tail(s))

RECURSIVE SortedList(_)
SortedList(s) == IF s = <<>> THEN <<>> ELSE InsertSorted(Head(s), SortedList(Tail(s)))

\* a statistic's value: the rational num / den, or NaN
Value(num, den) == [nan |-> FALSE, num |-> num, den |-> den]
NaN == [nan |-> TRUE, num |-> 0, den |-> 0]

\* line 174: np.median(gaps); NaN (with a warning) for an empty list
Median(g) ==
    LET s == SortedList(g)
        n == Len(g)
    IN  IF n = 0 THEN NaN
        ELSE IF n % 2 = 1 THEN Value(s[(n + 1) \div 2], 1)
        ELSE Value(s[n \div 2] + s[n \div 2 + 1], 2)

\* line 175: np.mean(gaps); NaN (with a warning) for an empty list
Mean(g) == IF Len(g) = 0 THEN NaN ELSE Value(SumSeq(g), Len(g))

\* line 177: sum(1 for g in gaps if g == 1)
CountOnes(g) == Cardinality({i \in 1..Len(g) : g[i] = 1})

Stat(name, value) == [stat |-> name, value |-> value]

(***************************************************************************)
(* The inputs of the calls.                                                *)
(***************************************************************************)
Buckets == (0..MaxEnd) \X (0..MaxEnd)

RECURSIVE SeqsUpTo(_, _)
\* the sequences over S of length at most n
SeqsUpTo(S, n) ==
    IF n = 0 THEN {<<>>}
    ELSE LET shorter == SeqsUpTo(S, n - 1)
         IN  shorter \cup {Append(s, x) : s \in shorter, x \in S}

\* the lists of ranges compute_density_by_range is called with: every list
\* of at most MaxBuckets buckets, and the bucket (0, 10) of the specification
RangeLists == SeqsUpTo(Buckets, MaxBuckets) \cup { << <<0, 10>> >> }

\* the candidates is_probable_prime is called with: every n of
\* -3..MaxCandidate, the values of the specification's spot checks, and
\* composites that pass weaker tests (Carmichael numbers, strong pseudoprimes
\* to the bases 2, 2-3 and 2-3-5)
Candidates ==
    ((-3)..MaxCandidate)
        \cup {561, 1105, 1729, 2047, 104729, 252601, 1373653, 25326001}

\* Q(1 - n, e) = Q(n, e) for odd e: the starts below 0 mirror those above
Starts == (-(MaxStart + 2))..MaxStart

\* the exponents Q is evaluated with
Exponents == {2, 3, 5, 7}

NoResidueResult ==
    [total_primes |-> 0, forbidden_residue_count |-> 0,
     primes_in_forbidden |-> 0, verification |-> None]

Init ==
    /\ pc = "start"
    /\ n_values = <<>>
    /\ ranges = <<>>
    /\ densities = <<>>
    /\ k = 0
    /\ ktuples = <<>>
    /\ clusters = <<>>
    /\ gaps = <<>>
    /\ printed = <<>>
    /\ error = None
    /\ forbidden = {}
    /\ residue_result = NoResidueResult
    /\ mr_n = 0
    /\ mr_r = 0
    /\ mr_d = 0
    /\ mr_i = 0
    /\ verdict = FALSE
    /\ start_n = 0
    /\ exponent = 0
    /\ offset = 0
    /\ results = <<>>
    /\ before_prime = FALSE
    /\ after_prime = FALSE
    /\ is_valid = FALSE

(***************************************************************************)
(* analyze_primes.py: the file is loaded, then either one of the analysis  *)
(* functions is called on the sequence, or main() runs on.                 *)
(***************************************************************************)
\* main, line 126
LoadFile ==
    /\ pc = "start"
    /\ \E lines \in FileContents : n_values' = load_prime_n_values(lines)
    /\ pc' = "loaded"
    /\ UNCHANGED <<ranges, densities, k, ktuples, clusters, gaps, printed,
                   error, forbidden, residue_result, mr_vars, quad_vars>>

CallDensity ==
    /\ pc = "loaded"
    /\ \E rs \in RangeLists :
          /\ ranges' = rs
          /\ densities' = compute_density_by_range(n_values, rs)
    /\ pc' = "density"
    /\ UNCHANGED <<n_values, k, ktuples, clusters, gaps, printed, error,
                   forbidden, residue_result, mr_vars, quad_vars>>

\* find_ktuples(n_values, k), and find_all_clusters on the same sequence,
\* which main() uses for the same counts (lines 154-160)
CallKtuples ==
    /\ pc = "loaded"
    /\ \E kk \in 0..MaxK :
          /\ k' = kk
          /\ ktuples' = find_ktuples(n_values, kk)
    /\ clusters' = find_all_clusters(n_values)
    /\ pc' = "ktuples"
    /\ UNCHANGED <<n_values, ranges, densities, gaps, printed, error,
                   forbidden, residue_result, mr_vars, quad_vars>>

CallClusters ==
    /\ pc = "loaded"
    /\ clusters' = find_all_clusters(n_values)
    /\ pc' = "clusters"
    /\ UNCHANGED <<n_values, ranges, densities, k, ktuples, gaps, printed,
                   error, forbidden, residue_result, mr_vars, quad_vars>>

CallGaps ==
    /\ pc = "loaded"
    /\ gaps' = compute_gaps(n_values)
    /\ pc' = "gaps"
    /\ UNCHANGED <<n_values, ranges, densities, k, ktuples, clusters, printed,
                   error, forbidden, residue_result, mr_vars, quad_vars>>

CallResidues ==
    /\ pc = "loaded"
    /\ forbidden' = ForbiddenSet
    /\ residue_result' = analyze_residues_mod_283(n_values)
    /\ pc' = "residues"
    /\ UNCHANGED <<n_values, ranges, densities, k, ktuples, clusters, gaps,
                   printed, error, mr_vars, quad_vars>>

\* main, lines 127-128: min() and max() of an empty list raise ValueError
MainReportRange ==
    /\ pc = "loaded"
    /\ IF n_values = <<>>
       THEN error' = "ValueError" /\ pc' = "crashed"
       ELSE error' = error /\ pc' = "main_density"
    /\ UNCHANGED <<n_values, ranges, densities, k, ktuples, clusters, gaps,
                   printed, forbidden, residue_result, mr_vars, quad_vars>>

\* main, lines 135-147
MainDensity ==
    /\ pc = "main_density"
    /\ ranges' = MainRanges
    /\ densities' = compute_density_by_range(n_values, MainRanges)
    /\ pc' = "main_clusters"
    /\ UNCHANGED <<n_values, k, ktuples, clusters, gaps, printed, error,
                   forbidden, residue_result, mr_vars, quad_vars>>

\* main, lines 154-166
MainClusters ==
    /\ pc = "main_clusters"
    /\ clusters' = find_all_clusters(n_values)
    /\ pc' = "main_gaps"
    /\ UNCHANGED <<n_values, ranges, densities, k, ktuples, gaps, printed,
                   error, forbidden, residue_result, mr_vars, quad_vars>>

\* main, line 173
MainGaps ==
    /\ pc = "main_gaps"
    /\ gaps' = compute_gaps(n_values)
    /\ pc' = "main_median"
    /\ UNCHANGED <<n_values, ranges, densities, k, ktuples, clusters, printed,
                   error, forbidden, residue_result, mr_vars, quad_vars>>

\* main, line 174
MainMedian ==
    /\ pc = "main_median"
    /\ printed' = Append(printed, Stat("median", Median(gaps)))
    /\ pc' = "main_mean"
    /\ UNCHANGED <<n_values, ranges, densities, k, ktuples, clusters, gaps,
                   error, forbidden, residue_result, mr_vars, quad_vars>>

\* main, line 175
MainMean ==
    /\ pc = "main_mean"
    /\ printed' = Append(printed, Stat("mean", Mean(gaps)))
    /\ pc' = "main_max"
    /\ UNCHANGED <<n_values, ranges, densities, k, ktuples, clusters, gaps,
                   error, forbidden, residue_result, mr_vars, quad_vars>>

\* main, line 176: max() of an empty list raises ValueError
MainMax ==
    /\ pc = "main_max"
    /\ IF gaps = <<>>
       THEN /\ error' = "ValueError"
            /\ pc' = "crashed"
            /\ printed' = printed
       ELSE /\ printed' = Append(printed, Stat("max", Value(SetMax(Range(gaps)), 1)))
            /\ pc' = "main_ones"
            /\ error' = error
    /\ UNCHANGED <<n_values, ranges, densities, k, ktuples, clusters, gaps,
                   forbidden, residue_result, mr_vars, quad_vars>>

\* main, line 177
MainOnes ==
    /\ pc = "main_ones"
    /\ printed' = Append(printed, Stat("ones", Value(CountOnes(gaps), 1)))
    /\ pc' = "main_residues"
    /\ UNCHANGED <<n_values, ranges, densities, k, ktuples, clusters, gaps,
                   error, forbidden, residue_result, mr_vars, quad_vars>>

\* main, lines 184-187
MainResidues ==
    /\ pc = "main_residues"
    /\ forbidden' = ForbiddenSet
    /\ residue_result' = analyze_residues_mod_283(n_values)
    /\ pc' = "main_done"
    /\ UNCHANGED <<n_values, ranges, densities, k, ktuples, clusters, gaps,
                   printed, error, mr_vars, quad_vars>>

Next ==
    \/ LoadFile
    \/ CallDensity
    \/ CallKtuples
    \/ CallClusters
    \/ CallGaps
    \/ CallResidues
    \/ MainReportRange
    \/ MainDensity
    \/ MainClusters
    \/ MainGaps
    \/ MainMedian
    \/ MainMean
    \/ MainMax
    \/ MainOnes
    \/ MainResidues

Spec == Init /\ [][Next]_vars

(***************************************************************************)
(* verify_quadruplets.py: is_probable_prime, statement by statement, and   *)
(* verify_quadruplet, which calls it six times.                            *)
(***************************************************************************)
MRCall ==
    /\ pc = "start"
    /\ \E n \in Candidates : mr_n' = n
    /\ pc' = "mr_entry"
    /\ UNCHANGED <<mr_r, mr_d, mr_i, verdict, analysis_vars, quad_vars>>

\* lines 14-19
MRFastPath ==
    /\ pc = "mr_entry"
    /\ IF IsTrivial(mr_n)
       THEN verdict' = TrivialVerdict(mr_n) /\ pc' = "mr_done"
       ELSE verdict' = verdict /\ pc' = "mr_decompose"
    /\ UNCHANGED <<mr_n, mr_r, mr_d, mr_i, analysis_vars, quad_vars>>

\* lines 22-28
MRDecompose ==
    /\ pc = "mr_decompose"
    /\ mr_r' = Decompose(mr_n)[1]
    /\ mr_d' = Decompose(mr_n)[2]
    /\ mr_i' = 1
    /\ pc' = "mr_witness"
    /\ UNCHANGED <<mr_n, verdict, analysis_vars, quad_vars>>

\* lines 30-44: one round of the loop over witnesses
MRWitness ==
    /\ pc = "mr_witness"
    /\ mr_i <= Len(witnesses)
    /\ IF SkipWitness(witnesses[mr_i], mr_n)
          \/ WitnessPasses(witnesses[mr_i], mr_n, mr_r, mr_d)
       THEN mr_i' = mr_i + 1 /\ verdict' = verdict /\ pc' = pc
       ELSE mr_i' = mr_i /\ verdict' = FALSE /\ pc' = "mr_done"
    /\ UNCHANGED <<mr_n, mr_r, mr_d, analysis_vars, quad_vars>>

\* line 46
MRReturnTrue ==
    /\ pc = "mr_witness"
    /\ mr_i > Len(witnesses)
    /\ verdict' = TRUE
    /\ pc' = "mr_done"
    /\ UNCHANGED <<mr_n, mr_r, mr_d, mr_i, analysis_vars, quad_vars>>

\* line 57
QuadCall ==
    /\ pc = "start"
    /\ \E s \in Starts, e \in Exponents : start_n' = s /\ exponent' = e
    /\ offset' = 0
    /\ results' = <<>>
    /\ pc' = "vq_loop"
    /\ UNCHANGED <<before_prime, after_prime, is_valid, analysis_vars, mr_vars>>

\* lines 58-66: one round of for offset in range(4)
QuadInterior ==
    /\ pc = "vq_loop"
    /\ offset < 4
    /\ results' = Append(results, is_probable_prime(Q(start_n + offset, exponent)))
    /\ offset' = offset + 1
    /\ UNCHANGED <<pc, start_n, exponent, before_prime, after_prime, is_valid,
                   analysis_vars, mr_vars>>

\* lines 69-76
QuadBoundary ==
    /\ pc = "vq_loop"
    /\ offset = 4
    /\ before_prime' = is_probable_prime(Q(BeforeIndex(start_n), exponent))
    /\ after_prime' = is_probable_prime(Q(AfterIndex(start_n), exponent))
    /\ pc' = "vq_boundary"
    /\ UNCHANGED <<start_n, exponent, offset, results, is_valid,
                   analysis_vars, mr_vars>>

\* lines 78-81
QuadReturn ==
    /\ pc = "vq_boundary"
    /\ is_valid' = IsValid(results, before_prime, after_prime)
    /\ pc' = "vq_done"
    /\ UNCHANGED <<start_n, exponent, offset, results, before_prime,
                   after_prime, analysis_vars, mr_vars>>

NextVerify ==
    \/ MRCall
    \/ MRFastPath
    \/ MRDecompose
    \/ MRWitness
    \/ MRReturnTrue
    \/ QuadCall
    \/ QuadInterior
    \/ QuadBoundary
    \/ QuadReturn

SpecVerify == Init /\ [][NextVerify]_vars

\* lines 14-46: the statements of is_probable_prime after its call
MRStep ==
    \/ MRFastPath
    \/ MRDecompose
    \/ MRWitness
    \/ MRReturnTrue

\* is_probable_prime is sequential code without a blocking call: once it is
\* called, its next statement always runs.
SpecVerifyFair == SpecVerify /\ WF_vars(MRStep)

(***************************************************************************)
(* The properties.                                                         *)
(***************************************************************************)
Abs(x) == IF x < 0 THEN 0 - x ELSE x

Elements == Range(n_values)

RECURSIVE PowModNaive(_, _, _)
\* b^e mod m by e multiplications
PowModNaive(b, e, m) == IF e = 0 THEN 1 % m ELSE (b * PowModNaive(b, e - 1, m)) % m

\* Q(n) = n^47 - (n-1)^47 modulo p
QModP(n) == (PowModNaive(n % p, E, p) - PowModNaive((n - 1) % p, E, p)) % p

VanishingResidues == {n \in 0..(p - 1) : QModP(n) = 0}

ResiduesDone == pc \in {"residues", "main_done"}

\* C1: the forbidden set the residue analyzer computes for P = 283, E = 47
\* is exactly the set of residues n of 0..P-1 with Q(n) = 0 (mod P).
C1_ForbiddenIsVanishingSet ==
    ResiduesDone => forbidden = VanishingResidues

C1_Witness ==
    /\ pc = "residues"
    /\ Cardinality(forbidden) = 46
    /\ 10 \in forbidden
    /\ 0 \notin forbidden

\* the largest d worth trying as a divisor of m
TrialLimit(m) == CHOOSE r \in 1..46340 : r * r <= m /\ (r + 1) * (r + 1) > m

IsPrime(m) == m >= 2 /\ \A dd \in 2..TrialLimit(m) : m % dd # 0

\* C2: is_probable_prime(m) returns True exactly when m is prime, for every
\* candidate m; 561 is rejected, 104729 accepted, 1 rejected, 2 accepted.
C2_VerdictIsPrimality ==
    pc = "mr_done" =>
        /\ verdict <=> IsPrime(mr_n)
        /\ is_probable_prime(mr_n) <=> IsPrime(mr_n)
        /\ mr_n = 561 => ~verdict
        /\ mr_n = 104729 => verdict
        /\ mr_n = 1 => ~verdict
        /\ mr_n = 2 => verdict

C2_Witness ==
    /\ pc = "mr_done"
    /\ mr_n = 561
    /\ mr_i = 1
    /\ verdict = FALSE

\* how the verifier classifies Q(n) for the exponent of the call
ClassifiedPrime(n) == is_probable_prime(Q(n, exponent))

ClustersDone == pc \in {"clusters", "ktuples", "main_gaps"}

\* the integers of the run c = (start, length)
Expand(c) == c[1]..(c[1] + c[2] - 1)

Covered == UNION {Expand(clusters[i]) : i \in 1..Len(clusters)}

\* the elements that belong to no reported run
Singletons == Elements \ Covered

\* how many of the reported runs hold the integer v
TimesCovered(v) == Cardinality({i \in 1..Len(clusters) : v \in Expand(clusters[i])})

\* C4: expanding the runs of find_all_clusters and adding the elements that
\* are in no run gives back the sequence: every element once, nothing else.
C4_RunsRoundTrip ==
    ClustersDone =>
        /\ \A v \in Elements \cup Covered :
              TimesCovered(v) + (IF v \in Singletons THEN 1 ELSE 0)
                  = (IF v \in Elements THEN 1 ELSE 0)
        /\ \A i \in 1..Len(clusters) : clusters[i][2] = Cardinality(Expand(clusters[i]))
        /\ SortedSeq(Covered \cup Singletons) = n_values
        /\ SumSeq([i \in 1..Len(clusters) |-> clusters[i][2]])
              + Cardinality(Singletons) = Len(n_values)

C4_Witness ==
    /\ pc = "clusters"
    /\ Len(clusters) >= 2
    /\ Singletons # {}

\* the maximal blocks of consecutive integers of S of length at least 2
MaximalBlocks(S) ==
    {c \in S \X (2..Cardinality(S)) :
        /\ Expand(c) \subseteq S
        /\ (c[1] - 1) \notin S
        /\ (c[1] + c[2]) \notin S}

\* C5: find_all_clusters returns, in ascending order, exactly the maximal
\* blocks of consecutive integers of length at least 2, each once and with
\* its full length; nothing for the empty sequence; [(5,3),(10,2)] for
\* [5,6,7,10,11,13].
C5_ClustersAreMaximalBlocks ==
    ClustersDone =>
        /\ Range(clusters) = MaximalBlocks(Elements)
        /\ \A i \in 1..(Len(clusters) - 1) : clusters[i][1] < clusters[i + 1][1]
        /\ n_values = <<>> => clusters = <<>>
        /\ n_values = ExampleSeq => clusters = << <<5, 3>>, <<10, 2>> >>

C5_Witness ==
    /\ pc = "clusters"
    /\ \E i \in 1..Len(clusters) : clusters[i][2] >= 5
    /\ Len(clusters) = 1

\* C6: primes_in_forbidden is the number of elements n with n mod 283 in the
\* forbidden set, and verification is PASS exactly when that number is zero:
\* an element in a forbidden class always gives FAIL.
C6_ForbiddenCountAndVerdict ==
    ResiduesDone =>
        /\ residue_result.primes_in_forbidden
              = Cardinality({i \in 1..Len(n_values) : (n_values[i] % 283) \in forbidden})
        /\ residue_result.verification = "PASS"
              <=> residue_result.primes_in_forbidden = 0
        /\ residue_result.verification \in {"PASS", "FAIL"}
        /\ (\E i \in 1..Len(n_values) : (n_values[i] % 283) \in forbidden)
              => residue_result.verification = "FAIL"

C6_Witness ==
    /\ pc = "residues"
    /\ residue_result.verification = "FAIL"
    /\ residue_result.primes_in_forbidden = 2
    /\ Cardinality({n_values[i] % 283 : i \in 1..Len(n_values)} \cap forbidden) = 1

GapsDone ==
    pc \in {"gaps", "main_median", "main_mean", "main_max", "main_ones",
            "main_residues", "main_done"}

\* C7: compute_gaps returns the differences seq[i] - seq[i-1] in order:
\* len(seq) - 1 of them for len(seq) >= 1, none for fewer than 2 elements,
\* each at least 1; [1,1,3,1,2] for [5,6,7,10,11,13].
C7_GapsAreDifferences ==
    GapsDone =>
        /\ Len(n_values) >= 1 => Len(gaps) = Len(n_values) - 1
        /\ Len(n_values) < 2 => gaps = <<>>
        /\ \A i \in 1..Len(gaps) : gaps[i] = n_values[i + 1] - n_values[i]
        /\ \A i \in 1..Len(gaps) : gaps[i] >= 1
        /\ n_values = ExampleSeq => gaps = <<1, 1, 3, 1, 2>>

C7_Witness ==
    /\ pc = "gaps"
    /\ n_values = ExampleSeq
    /\ gaps = <<1, 1, 3, 1, 2>>

\* main() has gone past its first gap statistic (line 174)
StatisticsReported ==
    pc \in {"main_mean", "main_max", "main_ones", "main_residues", "main_done"}

\* C8: for a sequence of fewer than 2 elements the summary statistics fail
\* with the empty-input error before any statistic is produced: no value,
\* NaN included, is ever reported for the empty gap list.
C8_NoStatisticForEmptyGaps ==
    Len(n_values) < 2 =>
        /\ printed = <<>>
        /\ ~StatisticsReported

\* the number of elements of the sequence in the bucket b = (low, high)
BucketCount(b) == Cardinality({v \in Elements : b[1] <= v /\ v < b[2]})

NonEmptyBucket(b) == BucketCount(b) > 0

\* the buckets that hold an element, in the order given
KeptBuckets == SelectSeq(ranges, NonEmptyBucket)

DensityDone == pc \in {"density", "main_clusters"}

\* the records up to the density: one per bucket holding an element, in
\* bucket order, with the bucket's count
DensityRecordsMatch ==
    /\ Len(densities) = Len(KeptBuckets)
    /\ \A j \in 1..Len(densities) :
          /\ densities[j].range = KeptBuckets[j]
          /\ densities[j].count = BucketCount(KeptBuckets[j])
          /\ densities[j].count > 0
          /\ KeptBuckets[j][2] > KeptBuckets[j][1]

\* C9, as claimed: one record per bucket with a non-zero count, in bucket
\* order, with that count and the density count * 10^6 / (high - low);
\* count 3 and density 300000 for [5,6,7,10,11,13] and the bucket (0, 10).
C9_DensityIsExactQuotient ==
    DensityDone =>
        /\ DensityRecordsMatch
        /\ \A j \in 1..Len(densities) :
              densities[j].density_per_million * (KeptBuckets[j][2] - KeptBuckets[j][1])
                  = densities[j].count * Scale * 10
        /\ (n_values = ExampleSeq /\ ranges = << <<0, 10>> >>)
              => densities = << [range |-> <<0, 10>>, count |-> 3,
                                 density_per_million |-> 3000000] >>

\* C9, amended: the density recorded is count * 10^6 / (high - low) rounded
\* to one decimal place (the tenth nearest to the quotient).
C9_DensityIsRoundedQuotient ==
    DensityDone =>
        /\ DensityRecordsMatch
        /\ \A j \in 1..Len(densities) :
              2 * Abs(densities[j].density_per_million
                          * (KeptBuckets[j][2] - KeptBuckets[j][1])
                      - densities[j].count * Scale * 10)
                  <= KeptBuckets[j][2] - KeptBuckets[j][1]
        /\ (n_values = ExampleSeq /\ ranges = << <<0, 10>> >>)
              => densities = << [range |-> <<0, 10>>, count |-> 3,
                                 density_per_million |-> 3000000] >>

C9_Witness ==
    /\ pc = "density"
    /\ Len(ranges) = 2
    /\ ranges[1][2] <= ranges[1][1]
    /\ Len(densities) = 1
    /\ (densities[1].count * Scale * 10) % (ranges[2][2] - ranges[2][1]) # 0

\* the starts of the maximal blocks of consecutive integers of S of length kk
BlockStarts(S, kk) ==
    {st \in S : /\ (st - 1) \notin S
                /\ (st..(st + kk - 1)) \subseteq S
                /\ (st + kk) \notin S}

HasLengthK(c) == c[2] = k

\* the starts of the clusters of length exactly k
ClusterStartsOfLengthK ==
    LET sel == SelectSeq(clusters, HasLengthK)
    IN  [i \in 1..Len(sel) |-> sel[i][1]]

\* C10: find_ktuples(seq, k) returns, in ascending order, the starts of the
\* maximal runs of length exactly k; a longer run contributes nothing; for
\* k >= 2 these are the starts of the runs of length k of find_all_clusters.
C10_KtuplesAreExactRuns ==
    pc = "ktuples" =>
        /\ ktuples = SortedSeq(BlockStarts(Elements, k))
        /\ k >= 2 => ktuples = ClusterStartsOfLengthK

C10_Witness ==
    /\ pc = "ktuples"
    /\ k = 4
    /\ \E i \in 1..Len(clusters) : clusters[i][2] = 5
    /\ ktuples = <<>>

\* the candidates that go past the fast path: the odd m >= 5
OddCandidate(m) == m >= 5 /\ m % 2 = 1

\* the r of m - 1 = 2^r * d with d odd, found without the loop of the source
TwoPart(m) ==
    CHOOSE rr \in 0..25 :
        /\ (m - 1) % (2 ^ rr) = 0
        /\ ((m - 1) \div (2 ^ rr)) % 2 = 1

OddPart(m) == (m - 1) \div (2 ^ TwoPart(m))

\* the witness a fails for m: a^d mod m is neither 1 nor m - 1, and none of
\* the r - 1 squarings a^(2^j * d) mod m, j in 1..r-1, is m - 1
WitnessFails(a, m) ==
    /\ ModPow(a, OddPart(m), m) \notin {1, m - 1}
    /\ \A j \in 1..(TwoPart(m) - 1) :
          ModPow(a, (2 ^ j) * OddPart(m), m) # m - 1

\* the positions of the witnesses below m that fail for m
FailingPositions(m) ==
    {i \in 1..Len(witnesses) : witnesses[i] < m /\ WitnessFails(witnesses[i], m)}

\* in the witness loop, and once the test is decided, m - 1 = 2^r * d with
\* d odd and r >= 1; the loop is at a witness of the list or past its end
C11_Decomposed ==
    (pc = "mr_witness" \/ (pc = "mr_done" /\ OddCandidate(mr_n))) =>
        /\ OddCandidate(mr_n)
        /\ mr_r >= 1
        /\ mr_d % 2 = 1
        /\ (2 ^ mr_r) * mr_d = mr_n - 1
        /\ mr_r = TwoPart(mr_n)
        /\ mr_i \in 1..(Len(witnesses) + 1)
        /\ \A i \in 1..(mr_i - 1) : i \notin FailingPositions(mr_n)

\* the verdict of an odd m >= 5: Composite exactly when a witness below m
\* fails, and then the loop stopped at the first one that does
C11_Verdict ==
    (pc = "mr_done" /\ OddCandidate(mr_n)) =>
        /\ ~verdict <=> FailingPositions(mr_n) # {}
        /\ ~verdict => mr_i = SetMin(FailingPositions(mr_n))
        /\ verdict => mr_i = Len(witnesses) + 1

\* one step of the test: an odd m >= 5 goes from the fast path to the
\* decomposition and on to the witness loop; a witness not below m is
\* skipped; a failing witness ends the test at once with Composite; a
\* passing one moves to the next; a decided test stays decided
C11_Step ==
    /\ (pc = "mr_entry" /\ OddCandidate(mr_n)) => pc' = "mr_decompose"
    /\ (pc = "mr_entry" /\ ~OddCandidate(mr_n)) => pc' = "mr_done"
    /\ pc = "mr_decompose" => pc' = "mr_witness"
    /\ (pc = "mr_witness" /\ mr_i <= Len(witnesses)) =>
          IF witnesses[mr_i] >= mr_n
          THEN pc' = "mr_witness" /\ mr_i' = mr_i + 1 /\ verdict' = verdict
          ELSE IF WitnessFails(witnesses[mr_i], mr_n)
          THEN pc' = "mr_done" /\ verdict' = FALSE /\ mr_i' = mr_i
          ELSE pc' = "mr_witness" /\ mr_i' = mr_i + 1 /\ verdict' = verdict
    /\ (pc = "mr_witness" /\ mr_i > Len(witnesses)) =>
          pc' = "mr_done" /\ verdict' = TRUE
    /\ pc = "mr_done" => FALSE

\* C11: every odd m >= 5 reaches the witness loop with m - 1 = 2^r * d, d
\* odd, r >= 1; it is found Composite exactly when a witness a < m of the
\* fixed set fails (a^d mod m is neither 1 nor m - 1 and none of the r - 1
\* squarings is m - 1); witnesses a >= m are skipped; the first failing
\* witness ends the test; and every test ends with a verdict.
C11_WitnessLoopDecides ==
    /\ [](C11_Decomposed /\ C11_Verdict)
    /\ [][C11_Step]_vars
    /\ (pc = "mr_entry" /\ OddCandidate(mr_n)) ~> (pc = "mr_witness")
    /\ (pc = "mr_entry") ~> (pc = "mr_done")

C11_Witness ==
    /\ pc = "mr_done"
    /\ OddCandidate(mr_n)
    /\ ~verdict
    /\ mr_r >= 2
    /\ mr_i >= 3

====
